---------------------------- MODULE Spec2Model ----------------------------
(***************************************************************************)
(* A model of the weather-alert program: WeatherService (fetch_forecast,   *)
(* analyze_forecast), AlertSystem (filter_conditions,                      *)
(* _format_condition_message, send_notification) and the driver loop of    *)
(* main().                                                                 *)
(*                                                                         *)
(* Representation.  Python str values are TLA+ strings, taken apart with   *)
(* Len, SubSeq, Head and Tail.  The module is ASCII, so the non-ASCII      *)
(* literals of the source are written with ASCII stand-ins: the unit of a  *)
(* temperature is "degC", and the emoji that prefix the header and the     *)
(* message lines are "<!>", "<T>", "<W>", "<R>" and "<Z>".  A number is a  *)
(* record                                                                  *)
(* [float, tenths]: a Python int n is [float |-> FALSE, tenths |-> 10*n],  *)
(* a Python float is carried exactly to one decimal place (the binary      *)
(* rounding of speed * 3.6 is not modelled).                               *)
(***************************************************************************)
EXTENDS Integers, Sequences, FiniteSets, TLC

VARIABLES
    notification_threshold, \* AlertSystem.notification_threshold
    op,                     \* the method most recently called on a service
    arg,                    \* its argument
    ret,                    \* what it returned
    raised,                 \* the exception that escaped it, or "none"
    net,                    \* how the push service behaved during that call
    posts,                  \* the POST requests issued during that call
    pc,                     \* position of main()
    clock,                  \* seconds since main() registered the job
    next_run,               \* schedule's next_run of the hourly job
    in_job,                 \* check_weather was started by run_pending
    cycles,                 \* check_weather invocations started so far
    errors,                 \* "Error in weather check" lines logged
    attempt_number,         \* tenacity's attempt counter of fetch_forecast
    slept,                  \* the backoff waits of the current fetch
    forecast,               \* local of get_weather_conditions
    conditions              \* local of check_weather

vars == <<notification_threshold, op, arg, ret, raised, net, posts, pc, clock,
          next_run, in_job, cycles, errors, attempt_number, slept, forecast,
          conditions>>

alertVars == <<op, arg, ret, raised, net, posts>>
driverVars == <<pc, clock, next_run, in_job, cycles, errors, attempt_number,
                slept, forecast, conditions>>

-----------------------------------------------------------------------------
(* Bounds of the model.                                                    *)

MaxConditions == 2   \* longest condition list handed to the AlertSystem
MaxEntries == 2      \* longest forecast["list"]
MaxCycles == 3       \* check_weather invocations followed by the driver

-----------------------------------------------------------------------------
(* Python values.                                                          *)

None == [py |-> "None"]

PyInt(n) == [float |-> FALSE, tenths |-> 10 * n]
PyFloat(t) == [float |-> TRUE, tenths |-> t]

UpperCase == "ABCDEFGHIJKLMNOPQRSTUVWXYZ"
LowerCase == "abcdefghijklmnopqrstuvwxyz"
Digits == "0123456789"

Char(s, i) == SubSeq(s, i, i)

IndexOf(ch, alphabet) ==
    IF \E i \in 1..Len(alphabet) : Char(alphabet, i) = ch
    THEN CHOOSE i \in 1..Len(alphabet) : Char(alphabet, i) = ch
    ELSE 0

char_lower(ch) ==
    LET i == IndexOf(ch, UpperCase) IN IF i = 0 THEN ch ELSE Char(LowerCase, i)

char_upper(ch) ==
    LET i == IndexOf(ch, LowerCase) IN IF i = 0 THEN ch ELSE Char(UpperCase, i)

RECURSIVE str_lower(_)
str_lower(s) ==
    IF s = "" THEN "" ELSE char_lower(Head(s)) \o str_lower(Tail(s))

\* str.capitalize(): first character upper-cased, the rest lower-cased.
str_capitalize(s) ==
    IF s = "" THEN "" ELSE char_upper(Head(s)) \o str_lower(Tail(s))

\* needle in hay
str_contains(needle, hay) ==
    \E i \in 1..(Len(hay) - Len(needle) + 1) :
        SubSeq(hay, i, i + Len(needle) - 1) = needle

RECURSIVE str_join(_, _)
str_join(sep, parts) ==
    IF parts = <<>> THEN ""
    ELSE IF Len(parts) = 1 THEN parts[1]
    ELSE parts[1] \o sep \o str_join(sep, Tail(parts))

RECURSIVE nat_str(_)
nat_str(n) ==
    IF n < 10 THEN Char(Digits, n + 1)
    ELSE nat_str(n \div 10) \o Char(Digits, (n % 10) + 1)

\* f"{value}" of an int or a float
num_str(v) ==
    LET a == IF v.tenths < 0 THEN -v.tenths ELSE v.tenths
        sign == IF v.tenths < 0 THEN "-" ELSE ""
    IN  IF v.float
        THEN sign \o nat_str(a \div 10) \o "." \o nat_str(a % 10)
        ELSE sign \o nat_str(a \div 10)

\* dict.get(key, default)
dict_get(d, key, default) == IF key \in DOMAIN d THEN d[key] ELSE default

-----------------------------------------------------------------------------
(* WeatherCondition and the AlertSystem.                                   *)

WeatherCondition(type, severity, description, value, unit) ==
    [type |-> type, severity |-> severity, description |-> description,
     value |-> value, unit |-> unit]

severity_levels ==
    [s \in {"info", "warning", "severe", "extreme"} |->
        CASE s = "info" -> 0
          [] s = "warning" -> 1
          [] s = "severe" -> 2
          [] s = "extreme" -> 3]

SeverityRank_default1(severity) == dict_get(severity_levels, severity, 1)

SeverityRank(severity) == dict_get(severity_levels, severity, 0)

ThresholdRank == dict_get(severity_levels, notification_threshold, 0)

MeetsThreshold_gt(condition) == SeverityRank(condition.severity) > ThresholdRank

MeetsThreshold(condition) == SeverityRank(condition.severity) >= ThresholdRank

filter_conditions(cs) == SelectSeq(cs, MeetsThreshold)

NoConditionsMessage == "No significant weather conditions detected."
MessageHeader == "<!> Weather Alert:\n"

ValueLine(glyph, c) ==
    glyph \o " " \o str_capitalize(c.severity) \o " " \o c.description
          \o ": " \o num_str(c.value) \o c.unit

PlainLine(glyph, c) ==
    glyph \o " " \o str_capitalize(c.severity) \o " " \o c.description

ConditionPart(c) ==
    IF c.type = "temperature" THEN ValueLine("<T>", c)
    ELSE IF c.type = "wind" THEN ValueLine("<W>", c)
    ELSE IF c.type = "precipitation" THEN ValueLine("<R>", c)
    ELSE PlainLine("<Z>", c)

message_parts_no_newline(cs) ==
    <<"<!> Weather Alert:">> \o [i \in 1..Len(cs) |-> ConditionPart(cs[i])]

message_parts(cs) ==
    <<MessageHeader>> \o [i \in 1..Len(cs) |-> ConditionPart(cs[i])]

format_condition_message(cs) ==
    IF cs = <<>> THEN NoConditionsMessage ELSE str_join("\n", message_parts(cs))


\* response.status == 200
StatusIsSuccess_2xx(status) == status \in 200..299

StatusIsSuccess(status) == status = 200

DefaultTitle == "Weather Alert System"
NoTitle == [given |-> FALSE, text |-> ""]
Title(text) == [given |-> TRUE, text |-> text]

\* title or "Weather Alert System"
TitleOrDefault(title) ==
    IF title.given /\ title.text # "" THEN title.text ELSE DefaultTitle

PushRequest(message, title) ==
    [method |-> "POST", host |-> "api.pushover.net:443",
     path |-> "/1/messages.json", message |-> message,
     title |-> TitleOrDefault(title)]

\* How the push service behaves during one call: the step of the exchange
\* that raises ("connect" and "send" inside conn.request, "read" inside
\* conn.getresponse), or "none" and the status of the response.
Fault(step) == [fault |-> step, status |-> 0]
Response(status) == [fault |-> "none", status |-> status]
NoNet == [fault |-> "unused", status |-> 0]

\* The try block: conn.request is called once; an exception of any step is
\* caught by "except Exception" and turned into False.
TryPost(request, n) ==
    IF n.fault # "none"
    THEN [ret |-> FALSE, raised |-> "none", posts |-> <<request>>]
    ELSE [ret |-> StatusIsSuccess(n.status), raised |-> "none",
          posts |-> <<request>>]

send_notification_always(cs, title, n) ==
    TryPost(PushRequest(format_condition_message(filter_conditions(cs)), title), n)

send_notification(cs, title, n) ==
    LET filtered_conditions == filter_conditions(cs) IN
    IF filtered_conditions = <<>>
    THEN [ret |-> FALSE, raised |-> "none", posts |-> <<>>]
    ELSE TryPost(PushRequest(format_condition_message(filtered_conditions),
                             title), n)

-----------------------------------------------------------------------------
(* Inputs of the AlertSystem.                                              *)

ThresholdSamples == {"info", "warning", "severe", "extreme", "heavy", "Warning"}

ConditionSamples ==
    { WeatherCondition("temperature", "info", "Mild", PyInt(25), "degC"),
      WeatherCondition("temperature", "warning", "Getting Hot", PyInt(35), "degC"),
      WeatherCondition("temperature", "extreme", "Extreme Cold", PyInt(-16), "degC"),
      WeatherCondition("wind", "severe", "High Winds", PyFloat(900), "km/h"),
      WeatherCondition("precipitation", "heavy", "Heavy Rain", PyInt(51), "mm"),
      WeatherCondition("weather", "severe", "Severe Weather: thunderstorm",
                       PyInt(0), ""),
      WeatherCondition("snow", "SEVERE", "Heavy Snow", PyInt(25), "cm") }

SeqsUpTo(S, n) == UNION { [1..k -> S] : k \in 0..n }

ConditionSeqs == SeqsUpTo(ConditionSamples, MaxConditions)

TitleSamples == {NoTitle, Title("Storm")}

StatusSamples == {200, 201, 400, 500}

NetSamples ==
    {Fault(step) : step \in {"connect", "send", "read"}}
        \cup {Response(status) : status \in StatusSamples}

-----------------------------------------------------------------------------
(* Calls on a constructed AlertSystem.  The methods keep no state between  *)
(* calls, so a behaviour is one construction followed by one call.         *)

DriverIdle ==
    /\ pc = "unit"
    /\ clock = 0
    /\ next_run = 0
    /\ in_job = FALSE
    /\ cycles = 0
    /\ errors = 0
    /\ attempt_number = 0
    /\ slept = <<>>
    /\ forecast = None
    /\ conditions = <<>>

NoCall ==
    /\ op = "none"
    /\ arg = None
    /\ ret = None
    /\ raised = "none"
    /\ net = NoNet
    /\ posts = <<>>

InitAlert ==
    /\ notification_threshold \in ThresholdSamples
    /\ NoCall
    /\ DriverIdle

CallFilterConditions ==
    \E cs \in ConditionSeqs :
        /\ op = "none"
        /\ op' = "filter_conditions"
        /\ arg' = cs
        /\ ret' = filter_conditions(cs)
        /\ raised' = "none"
        /\ net' = NoNet
        /\ posts' = <<>>
        /\ UNCHANGED <<notification_threshold, driverVars>>

CallFormatConditionMessage ==
    \E cs \in ConditionSeqs :
        /\ op = "none"
        /\ op' = "_format_condition_message"
        /\ arg' = cs
        /\ ret' = format_condition_message(cs)
        /\ raised' = "none"
        /\ net' = NoNet
        /\ posts' = <<>>
        /\ UNCHANGED <<notification_threshold, driverVars>>

CallSendNotification ==
    \E cs \in ConditionSeqs, title \in TitleSamples, n \in NetSamples :
        LET r == send_notification(cs, title, n) IN
        /\ op = "none"
        /\ op' = "send_notification"
        /\ arg' = [conditions |-> cs, title |-> title]
        /\ ret' = r.ret
        /\ raised' = r.raised
        /\ net' = n
        /\ posts' = r.posts
        /\ UNCHANGED <<notification_threshold, driverVars>>

NextAlert ==
    \/ CallFilterConditions
    \/ CallFormatConditionMessage
    \/ CallSendNotification

SpecAlert == InitAlert /\ [][NextAlert]_vars

-----------------------------------------------------------------------------
(* The ranking and the subsequence relation that C1 to C3 are stated with. *)

RankOf(s) ==
    CASE s = "info" -> 0
      [] s = "warning" -> 1
      [] s = "severe" -> 2
      [] s = "extreme" -> 3
      [] OTHER -> 0

Retained(c) == RankOf(c.severity) >= RankOf(notification_threshold)

\* out is in with exactly the elements at the indices of keep, in order
IsSubsequenceAt(out, in, keep) ==
    /\ Len(out) = Cardinality(keep)
    /\ \A i \in keep : out[Cardinality({j \in keep : j <= i})] = in[i]

(* C1: filter_conditions returns the order-preserving subsequence of its   *)
(* input that holds exactly the conditions whose severity rank is at least *)
(* the threshold's rank, with info=0, warning=1, severe=2, extreme=3 and   *)
(* every other severity or threshold string ranked 0.                      *)
C1_FilterBySeverity ==
    op = "filter_conditions" =>
        IsSubsequenceAt(ret, arg, {i \in 1..Len(arg) : Retained(arg[i])})

\* an unranked severity was dropped and a ranked one below it in the list kept
C1_Witness ==
    /\ op = "filter_conditions"
    /\ Len(arg) = 2
    /\ arg[1].severity = "heavy"
    /\ arg[2].severity = "warning"
    /\ notification_threshold = "warning"
    /\ Len(ret) = 1

(* C2: when no condition reaches the threshold rank (the empty list        *)
(* included) send_notification returns False and issues no POST.           *)
C2_NothingToSend ==
    (op = "send_notification"
        /\ \A i \in 1..Len(arg.conditions) : ~Retained(arg.conditions[i]))
    => (ret = FALSE /\ raised = "none" /\ posts = <<>>)

C2_Witness ==
    /\ op = "send_notification"
    /\ Len(arg.conditions) = 2
    /\ \A i \in 1..2 : ~Retained(arg.conditions[i])
    /\ net = Response(200)

(* C3: when some condition passes the filter, send_notification issues     *)
(* exactly one POST, raises nothing, and returns True iff the response     *)
(* arrived with status 200.                                                *)
C3_SinglePost ==
    (op = "send_notification"
        /\ \E i \in 1..Len(arg.conditions) : Retained(arg.conditions[i]))
    => /\ Len(posts) = 1
       /\ posts[1].method = "POST"
       /\ raised = "none"
       /\ ret = (net.fault = "none" /\ net.status = 200)

C3_Witness ==
    /\ op = "send_notification"
    /\ \E i \in 1..Len(arg.conditions) : Retained(arg.conditions[i])
    /\ net = Response(201)
    /\ ret = FALSE
    /\ Len(posts) = 1

(* Reading a message back: its lines, and what one line shows.             *)

FirstIndex(ch, s) ==
    IF \E i \in 1..Len(s) : Char(s, i) = ch
    THEN CHOOSE i \in 1..Len(s) :
            Char(s, i) = ch /\ \A j \in 1..(i - 1) : Char(s, j) # ch
    ELSE 0

RECURSIVE SplitLines(_)
SplitLines(s) ==
    LET i == FirstIndex("\n", s) IN
    IF i = 0 THEN <<s>>
    ELSE <<SubSeq(s, 1, i - 1)>> \o SplitLines(SubSeq(s, i + 1, Len(s)))

RECURSIVE DigitsValue(_)
DigitsValue(s) ==
    IF s = "" THEN 0
    ELSE 10 * DigitsValue(SubSeq(s, 1, Len(s) - 1))
            + (IndexOf(Char(s, Len(s)), Digits) - 1)

\* the number a decimal numeral denotes, as [float, tenths]
NumeralValue(s) ==
    LET negative == s # "" /\ Head(s) = "-"
        body == IF negative THEN Tail(s) ELSE s
        dot == FirstIndex(".", body)
        whole == IF dot = 0 THEN body ELSE SubSeq(body, 1, dot - 1)
        frac == IF dot = 0 THEN "0" ELSE SubSeq(body, dot + 1, Len(body))
        magnitude == 10 * DigitsValue(whole) + DigitsValue(frac)
    IN  [float |-> dot # 0,
         tenths |-> IF negative THEN -magnitude ELSE magnitude]

IsNumeral(s) ==
    /\ s # ""
    /\ \A i \in 1..Len(s) :
        \/ IndexOf(Char(s, i), Digits) # 0
        \/ Char(s, i) = "." /\ 1 < i /\ i = Len(s) - 1
        \/ Char(s, i) = "-" /\ i = 1

ShowsValue(c) == c.type \in {"temperature", "wind", "precipitation"}

\* line is "<prefix> <severity> <description>" and, for the three value
\* types, ": <value><unit>"; the severity is compared without case
LineShows(line, c) ==
    LET sp == FirstIndex(" ", line)
        from == sp + Len(c.severity) + 1
        rest == SubSeq(line, from, Len(line))
        tail == " " \o c.description \o ": "
        numeral == SubSeq(rest, Len(tail) + 1, Len(rest) - Len(c.unit))
    IN  /\ sp > 1
        /\ Len(line) >= sp + Len(c.severity)
        /\ str_lower(SubSeq(line, sp + 1, from - 1)) = str_lower(c.severity)
        /\ IF ShowsValue(c)
           THEN /\ Len(rest) >= Len(tail) + Len(c.unit)
                /\ SubSeq(rest, 1, Len(tail)) = tail
                /\ SubSeq(rest, Len(rest) - Len(c.unit) + 1, Len(rest)) = c.unit
                /\ IsNumeral(numeral)
                /\ NumeralValue(numeral) = c.value
           ELSE rest = " " \o c.description

HeaderLine == "<!> Weather Alert:"

MessageIs(message, cs, gap) ==
    IF cs = <<>> THEN message = "No significant weather conditions detected."
    ELSE LET lines == SplitLines(message) IN
         /\ Len(lines) = 1 + gap + Len(cs)
         /\ lines[1] = HeaderLine
         /\ \A i \in 2..(1 + gap) : lines[i] = ""
         /\ \A i \in 1..Len(cs) : LineShows(lines[1 + gap + i], cs[i])

(* C10: _format_condition_message returns the sentinel on the empty list;  *)
(* on a non-empty list it returns the header line, then an empty line,     *)
(* then one line per condition in input order; the line of a temperature,  *)
(* wind or precipitation condition shows severity, description, value and  *)
(* unit, the line of any other type only severity and description.         *)
C10_FormatMessage ==
    op = "_format_condition_message" => MessageIs(ret, arg, 1)

\* C10 as stated: the condition lines follow the header line directly
C10_AsStated ==
    op = "_format_condition_message" => MessageIs(ret, arg, 0)

C10_Witness ==
    /\ op = "_format_condition_message"
    /\ Len(arg) = 2
    /\ arg[1].type = "wind"
    /\ arg[2].type = "weather"
    /\ Len(SplitLines(ret)) = 4

-----------------------------------------------------------------------------
(* WeatherService.analyze_forecast.                                        *)
(*                                                                         *)
(* A Python dict is a record with the marker field py and one field per    *)
(* key; Keys gives the keys.  The result of a call that may raise is a     *)
(* record [raised, ret].                                                   *)

Dict == [py |-> "dict"]
Keys(d) == DOMAIN d \ {"py"}

Ok(value) == [raised |-> "none", ret |-> value]
Raise(exception) == [raised |-> exception, ret |-> <<>>]

\* the statements after a block that may have raised
Then(first, rest) ==
    IF first.raised # "none" THEN first
    ELSE IF rest.raised # "none" THEN rest
    ELSE Ok(first.ret \o rest.ret)

thresholds ==
    [temperature |-> [extreme_high |-> 40, extreme_low |-> -15,
                      warning_high |-> 35, warning_low |-> -10],
     wind |-> [severe |-> 75, warning |-> 50],
     precipitation |-> [heavy_rain |-> ("3h" :> 50 @@ "6h" :> 80),
                        snow |-> ("3h" :> 20 @@ "6h" :> 40)],
     severe_conditions |-> <<"thunderstorm", "hurricane", "tornado",
                             "cyclone", "typhoon", "blizzard">>]

\* value > threshold and value < threshold, the threshold a whole number
Exceeds(value, threshold) == value.tenths > 10 * threshold
Below(value, threshold) == value.tenths < 10 * threshold

\* speed * 3.6, for a speed in whole metres per second
ToKmh(speed) == PyFloat((speed.tenths * 36) \div 10)

TemperatureRule_ge(entry) ==
    LET temp == entry.main.temp IN
    IF ~Below(temp, thresholds.temperature.extreme_high)
    THEN <<WeatherCondition("temperature", "extreme", "Extreme Heat", temp,
                            "degC")>>
    ELSE IF Below(temp, thresholds.temperature.extreme_low)
    THEN <<WeatherCondition("temperature", "extreme", "Extreme Cold", temp,
                            "degC")>>
    ELSE <<>>

TemperatureRule(entry) ==
    LET temp == entry.main.temp IN
    IF Exceeds(temp, thresholds.temperature.extreme_high)
    THEN <<WeatherCondition("temperature", "extreme", "Extreme Heat", temp,
                            "degC")>>
    ELSE IF Below(temp, thresholds.temperature.extreme_low)
    THEN <<WeatherCondition("temperature", "extreme", "Extreme Cold", temp,
                            "degC")>>
    ELSE <<>>

WindRule(entry) ==
    LET wind_speed == ToKmh(entry.wind.speed) IN
    IF Exceeds(wind_speed, thresholds.wind.severe)
    THEN <<WeatherCondition("wind", "severe", "High Winds", wind_speed,
                            "km/h")>>
    ELSE <<>>

PrecipitationRule(entry) ==
    IF "rain" \in Keys(entry) /\ "3h" \in Keys(entry.rain)
    THEN LET rain_volume == entry.rain["3h"] IN
         IF Exceeds(rain_volume, thresholds.precipitation.heavy_rain["3h"])
         THEN <<WeatherCondition("precipitation", "heavy", "Heavy Rain",
                                 rain_volume, "mm")>>
         ELSE <<>>
    ELSE <<>>

\* any(condition in weather["main"].lower() for condition in severe_conditions)
IsSevereWeather(weather) ==
    \E k \in 1..Len(thresholds.severe_conditions) :
        str_contains(thresholds.severe_conditions[k], str_lower(weather.main))

\* weather["description"] raises KeyError when the tag has no description
SevereWeatherCondition(weather) ==
    IF "description" \in Keys(weather)
    THEN Ok(<<WeatherCondition("weather", "severe",
                               "Severe Weather: " \o weather.description,
                               PyInt(0), "")>>)
    ELSE Raise("KeyError")

RECURSIVE WeatherRule(_)
WeatherRule(tags) ==
    IF tags = <<>> THEN Ok(<<>>)
    ELSE IF IsSevereWeather(Head(tags))
    THEN Then(SevereWeatherCondition(Head(tags)), WeatherRule(Tail(tags)))
    ELSE WeatherRule(Tail(tags))

\* entry.get("weather", [])
WeatherTags(entry) == IF "weather" \in Keys(entry) THEN entry.weather ELSE <<>>

\* one iteration of the loop over forecast["list"]
EntryConditions(entry) ==
    Then(Ok(TemperatureRule(entry) \o WindRule(entry) \o PrecipitationRule(entry)),
         WeatherRule(WeatherTags(entry)))

RECURSIVE AnalyzeEntries(_)
AnalyzeEntries(entries) ==
    IF entries = <<>> THEN Ok(<<>>)
    ELSE Then(EntryConditions(Head(entries)), AnalyzeEntries(Tail(entries)))

\* not forecast or "list" not in forecast
IsInvalidForecast_none_only(f) == f = None

IsInvalidForecast(f) == f = None \/ Keys(f) = {} \/ "list" \notin Keys(f)

\* forecast["list"]
ForecastList(f) ==
    IF f = None THEN Raise("TypeError")
    ELSE IF "list" \notin Keys(f) THEN Raise("KeyError")
    ELSE Ok(f.list)

analyze_forecast(f) ==
    IF IsInvalidForecast(f) THEN Ok(<<>>)
    ELSE IF ForecastList(f).raised # "none" THEN ForecastList(f)
    ELSE AnalyzeEntries(ForecastList(f).ret)

-----------------------------------------------------------------------------
(* Inputs of analyze_forecast.  Temperatures and rain volumes sit on both  *)
(* sides of their thresholds; 20 m/s is 72 km/h and 21 m/s is 75.6 km/h.   *)

Entry(temp, speed) ==
    Dict @@ [main |-> Dict @@ [temp |-> PyInt(temp)],
             wind |-> Dict @@ [speed |-> PyInt(speed)]]

Rain3h(volume) == Dict @@ ("3h" :> PyInt(volume))
Rain1h(volume) == Dict @@ ("1h" :> PyInt(volume))
WithRain(entry, rain) == entry @@ [rain |-> rain]
WithWeather(entry, tags) == entry @@ [weather |-> tags]

Tag(main, description) == Dict @@ [main |-> main, description |-> description]
TagNoDescription(main) == Dict @@ [main |-> main]

TempSamples == {-16, -15, 40, 41}
SpeedSamples == {20, 21}
RainSamples == {50, 51}

WeatherSamples ==
    { <<>>,
      <<Tag("Thunderstorm", "thunderstorm with rain")>>,
      <<Tag("Clear", "clear sky"), Tag("TORNADO", "tornado")>>,
      <<Tag("Snow Blizzard", "blizzard"), Tag("Thunderstorm", "Thunderstorm")>>,
      <<TagNoDescription("Clouds")>>,
      <<TagNoDescription("Thunderstorm")>> }

CalmEntry == Entry(25, 5)
StormEntry == WithRain(Entry(41, 25), Rain3h(51))

\* every temperature with every speed; every rain sample, and a rain dict
\* without "3h", on the calm entry; every tag list on the calm entry and on
\* the entry that triggers the three numeric rules; both without "weather"
EntrySamples ==
    {WithWeather(Entry(t, s), <<>>) : t \in TempSamples, s \in SpeedSamples}
        \cup {WithWeather(WithRain(CalmEntry, Rain3h(r)), <<>>) : r \in RainSamples}
        \cup {WithWeather(e, w) : e \in {CalmEntry, StormEntry},
                                  w \in WeatherSamples}
        \cup {CalmEntry, StormEntry, WithRain(CalmEntry, Rain1h(60))}

Forecast(entries) == Dict @@ [cod |-> "200", list |-> entries]

ForecastSamples ==
    {None, Dict, Dict @@ [cod |-> "404", message |-> "city not found"]}
        \cup {Forecast(es) : es \in SeqsUpTo(EntrySamples, MaxEntries)}

InitAnalyze ==
    /\ notification_threshold = "warning"
    /\ NoCall
    /\ DriverIdle

CallAnalyzeForecast ==
    \E f \in ForecastSamples :
        LET r == analyze_forecast(f) IN
        /\ op = "none"
        /\ op' = "analyze_forecast"
        /\ arg' = f
        /\ ret' = IF r.raised = "none" THEN r.ret ELSE None
        /\ raised' = r.raised
        /\ UNCHANGED <<notification_threshold, net, posts, driverVars>>

NextAnalyze == CallAnalyzeForecast

SpecAnalyze == InitAnalyze /\ [][NextAnalyze]_vars

-----------------------------------------------------------------------------
(* C6: every condition analyze_forecast returns has one of the four        *)
(* severities info, warning, severe, extreme.                              *)
C6_SeverityEnumerated ==
    (op = "analyze_forecast" /\ raised = "none") =>
        \A i \in 1..Len(ret) :
            ret[i].severity \in {"info", "warning", "severe", "extreme"}

(* C7: analyze_forecast raises on no input, whichever optional parts (rain *)
(* sample, weather tags, a tag's description) an entry carries.            *)
C7_NeverRaises == op = "analyze_forecast" => raised = "none"

(* C8: analyze_forecast returns the empty list, without raising, when the  *)
(* forecast is None, an empty payload, or a payload without "list".        *)
C8_InvalidForecastEmpty ==
    (op = "analyze_forecast"
        /\ (arg = None \/ DOMAIN arg = {"py"} \/ "list" \notin DOMAIN arg))
    => (raised = "none" /\ ret = <<>>)

C8_Witness ==
    /\ op = "analyze_forecast"
    /\ arg # None
    /\ "message" \in DOMAIN arg
    /\ "list" \notin DOMAIN arg
    /\ ret = <<>>

(* What each rule is to contribute for one entry, as type, description and *)
(* value.                                                                  *)

Keywords ==
    {"thunderstorm", "hurricane", "tornado", "cyclone", "typhoon", "blizzard"}

TagsOf(e) == IF "weather" \in DOMAIN e THEN e.weather ELSE <<>>

WellFormed(e) ==
    \A i \in 1..Len(TagsOf(e)) :
        {"main", "description"} \subseteq DOMAIN TagsOf(e)[i]

TagMatches(tag) == \E k \in Keywords : str_contains(k, str_lower(tag.main))

ExpectedTemperature(e) ==
    LET t == e.main.temp.tenths IN
    IF t > 400 THEN <<(<<"temperature", "Extreme Heat", e.main.temp>>)>>
    ELSE IF t < -150 THEN <<(<<"temperature", "Extreme Cold", e.main.temp>>)>>
    ELSE <<>>

ExpectedWind(e) ==
    LET hundredths == e.wind.speed.tenths * 36 IN
    IF hundredths > 7500
    THEN <<(<<"wind", "High Winds", PyFloat(hundredths \div 10)>>)>>
    ELSE <<>>

ExpectedRain(e) ==
    IF "rain" \in DOMAIN e /\ "3h" \in DOMAIN e.rain /\ e.rain["3h"].tenths > 500
    THEN <<(<<"precipitation", "Heavy Rain", e.rain["3h"]>>)>>
    ELSE <<>>

ExpectedTags(e) ==
    LET hits == SelectSeq(TagsOf(e), TagMatches) IN
    [i \in 1..Len(hits) |->
        <<"weather", "Severe Weather: " \o hits[i].description, PyInt(0)>>]

ExpectedOfEntry(e) ==
    ExpectedTemperature(e) \o ExpectedWind(e) \o ExpectedRain(e) \o ExpectedTags(e)

RECURSIVE Concatenation(_)
Concatenation(seqs) ==
    IF seqs = <<>> THEN <<>> ELSE Head(seqs) \o Concatenation(Tail(seqs))

(* C9: on a forecast whose entries are well formed, analyze_forecast       *)
(* returns the concatenation, in entry order, of each entry's conditions   *)
(* in the order temperature, wind, precipitation, weather tags: Extreme    *)
(* Heat iff temp > 40, else Extreme Cold iff temp < -15; High Winds iff    *)
(* speed * 3.6 > 75; Heavy Rain iff a 3-hour rain sample exists and is     *)
(* > 50; one severe-weather condition per tag whose lower-cased category   *)
(* contains a keyword.  Nothing is merged or dropped.                      *)
C9_AnalyzeIsConcatenation ==
    (op = "analyze_forecast"
        /\ arg # None
        /\ "list" \in DOMAIN arg
        /\ \A i \in 1..Len(arg.list) : WellFormed(arg.list[i]))
    => /\ raised = "none"
       /\ [i \in 1..Len(ret) |-> <<ret[i].type, ret[i].description, ret[i].value>>]
            = Concatenation([i \in 1..Len(arg.list) |-> ExpectedOfEntry(arg.list[i])])

\* two entries, the first triggering every rule with two matching tags, the
\* second only the cold rule
C9_Witness ==
    /\ op = "analyze_forecast"
    /\ raised = "none"
    /\ Len(ret) = 6
    /\ [i \in 1..6 |-> ret[i].type]
         = <<"temperature", "wind", "precipitation", "weather", "weather",
             "temperature">>
    /\ ret[6].description = "Extreme Cold"

-----------------------------------------------------------------------------
(* WeatherService.fetch_forecast under tenacity's retry, and the driver    *)
(* loop of main().  In the driver, op, arg and ret are unused; raised is   *)
(* the exception that escaped a stage of the check_weather invocation in   *)
(* progress, net and posts are the push traffic of that invocation.        *)

StopAfterAttempt == 3   \* stop_after_attempt(3)
WaitMultiplier == 1     \* wait_exponential(multiplier=1, ...)
WaitMin == 4            \* wait_exponential(..., min=4, ...)
WaitMax == 10           \* wait_exponential(..., max=10)
Interval == 3600        \* schedule.every(1).hour, in seconds
SleepSeconds == 1       \* time.sleep(1)

Min(a, b) == IF a < b THEN a ELSE b
Max(a, b) == IF a > b THEN a ELSE b

\* wait_exponential: multiplier * 2^(attempt_number - 1), clamped to [min, max]
WaitExponential(attempt) ==
    Max(WaitMin, Min(WaitMultiplier * 2 ^ (attempt - 1), WaitMax))

\* What one requests.get / raise_for_status / response.json() can do: hand
\* back a payload, raise a RequestException (ConnectionError, Timeout,
\* HTTPError), or raise an exception that is no RequestException (the
\* ValueError of response.json() on a body that is not JSON, before
\* requests 2.27).
RequestExceptions == {"ConnectionError", "Timeout", "HTTPError"}
Json(payload) == [kind |-> "json", payload |-> payload]
Fails(exception) == [kind |-> exception, payload |-> None]

\* the body of fetch_forecast: try / except requests.RequestException
FetchBody(outcome) ==
    IF outcome.kind = "json" THEN Ok(outcome.payload)
    ELSE IF outcome.kind \in RequestExceptions THEN Ok(None)
    ELSE Raise(outcome.kind)

\* if forecast:
Truthy(f) == f # None /\ Keys(f) # {}

\* except Exception, in check_weather
CaughtByCheckWeather_request_only(exception) == exception \in RequestExceptions

CaughtByCheckWeather(exception) ==
    exception \in RequestExceptions \cup {"RetryError", "KeyError", "TypeError",
                                         "ValueError"}

DriverThresholds == {"warning", "info"}

DriverForecasts ==
    {Dict, Dict @@ [cod |-> "404", message |-> "city not found"]}
        \cup {Forecast(<<e>>) : e \in EntrySamples}

FetchOutcomes ==
    {Json(f) : f \in DriverForecasts}
        \cup {Fails(x) : x \in RequestExceptions \cup {"ValueError"}}

InitMain ==
    /\ notification_threshold \in DriverThresholds
    /\ NoCall
    /\ pc = "initial"
    /\ clock = 0
    /\ next_run = Interval
    /\ in_job = FALSE
    /\ cycles = 0
    /\ errors = 0
    /\ attempt_number = 0
    /\ slept = <<>>
    /\ forecast = None
    /\ conditions = <<>>

\* an exception leaves a stage of check_weather: the handler logs it and
\* check_weather returns; otherwise it reaches main's own handler, which
\* logs it and lets main return
RaiseInCycle(exception) ==
    /\ raised' = exception
    /\ IF CaughtByCheckWeather(exception)
       THEN errors' = errors + 1 /\ pc' = "return"
       ELSE errors' = errors /\ pc' = "exited"

\* main calls check_weather() once before the loop
InitialCheck ==
    /\ pc = "initial"
    /\ pc' = "fetch"
    /\ cycles' = cycles + 1
    /\ in_job' = FALSE
    /\ attempt_number' = 0
    /\ slept' = <<>>
    /\ UNCHANGED <<notification_threshold, op, arg, ret, raised, net, posts,
                   clock, next_run, errors, forecast, conditions>>

\* one attempt of fetch_forecast inside tenacity's loop, and, when the call
\* returns, the "if forecast" of get_weather_conditions
FetchAttempt ==
    \E outcome \in FetchOutcomes :
        LET r == FetchBody(outcome)
            n == attempt_number + 1
        IN
        /\ pc = "fetch"
        /\ attempt_number' = n
        /\ IF r.raised = "none"
           THEN /\ forecast' = r.ret
                /\ pc' = IF Truthy(r.ret) THEN "analyze" ELSE "notify"
                /\ UNCHANGED <<raised, errors, clock, slept, conditions>>
           ELSE IF n >= StopAfterAttempt
           THEN /\ RaiseInCycle("RetryError")
                /\ UNCHANGED <<forecast, clock, slept, conditions>>
           ELSE /\ clock' = clock + WaitExponential(n)
                /\ slept' = Append(slept, WaitExponential(n))
                /\ UNCHANGED <<pc, raised, errors, forecast, conditions>>
        /\ UNCHANGED <<notification_threshold, op, arg, ret, net, posts,
                       next_run, in_job, cycles>>

Analyze ==
    LET r == analyze_forecast(forecast) IN
    /\ pc = "analyze"
    /\ IF r.raised = "none"
       THEN /\ conditions' = r.ret
            /\ pc' = "notify"
            /\ UNCHANGED <<raised, errors>>
       ELSE /\ RaiseInCycle(r.raised)
            /\ UNCHANGED conditions
    /\ UNCHANGED <<notification_threshold, op, arg, ret, net, posts, clock,
                   next_run, in_job, cycles, attempt_number, slept, forecast>>

Notify ==
    \E n \in NetSamples :
        LET r == send_notification(conditions, NoTitle, n) IN
        /\ pc = "notify"
        /\ net' = IF r.posts = <<>> THEN NoNet ELSE n
        /\ posts' = r.posts
        /\ IF r.raised = "none"
           THEN pc' = "return" /\ UNCHANGED <<raised, errors>>
           ELSE RaiseInCycle(r.raised)
        /\ UNCHANGED <<notification_threshold, op, arg, ret, clock, next_run,
                       in_job, cycles, attempt_number, slept, forecast,
                       conditions>>

\* check_weather returns; schedule re-plans a job it ran itself
CheckWeatherReturn ==
    /\ pc = "return"
    /\ pc' = IF in_job THEN "sleep" ELSE "loop"
    /\ next_run' = IF in_job THEN clock + Interval ELSE next_run
    /\ in_job' = FALSE
    /\ raised' = "none"
    /\ net' = NoNet
    /\ posts' = <<>>
    /\ attempt_number' = 0
    /\ slept' = <<>>
    /\ forecast' = None
    /\ conditions' = <<>>
    /\ UNCHANGED <<notification_threshold, op, arg, ret, clock, cycles, errors>>

\* schedule.run_pending()
RunPending ==
    /\ pc = "loop"
    /\ IF clock >= next_run
       THEN /\ cycles < MaxCycles
            /\ pc' = "fetch"
            /\ in_job' = TRUE
            /\ cycles' = cycles + 1
       ELSE /\ pc' = "sleep"
            /\ UNCHANGED <<in_job, cycles>>
    /\ UNCHANGED <<notification_threshold, op, arg, ret, raised, net, posts,
                   clock, next_run, errors, attempt_number, slept, forecast,
                   conditions>>

\* time.sleep(1)
Sleep ==
    /\ pc = "sleep"
    /\ clock' = clock + SleepSeconds
    /\ pc' = "loop"
    /\ UNCHANGED <<notification_threshold, op, arg, ret, raised, net, posts,
                   next_run, in_job, cycles, errors, attempt_number, slept,
                   forecast, conditions>>

NextMain ==
    \/ InitialCheck
    \/ FetchAttempt
    \/ Analyze
    \/ Notify
    \/ CheckWeatherReturn
    \/ RunPending
    \/ Sleep

SpecMain == InitMain /\ [][NextMain]_vars

-----------------------------------------------------------------------------
(* C4: a failed request attempt (network failure, timeout, non-success     *)
(* status) is retried, up to 3 attempts with a backoff wait in between;    *)
(* fetch_forecast returns None only after the attempts are exhausted, and  *)
(* never raises to its caller.                                             *)
C4_RetriesBeforeNone ==
    /\ (pc = "notify" /\ forecast = None) =>
            (attempt_number = StopAfterAttempt /\ Len(slept) = StopAfterAttempt - 1)
    /\ raised # "RetryError"

(* C5: check_weather runs once at startup and then once per interval; an   *)
(* exception raised by a stage of a cycle is caught at the cycle boundary, *)
(* the process does not terminate, and every later cycle is still started. *)
(* Stated as safety: main never returns; the startup cycle precedes the    *)
(* loop; while the loop idles the next run is at most one interval away;   *)
(* a fetch makes at most 3 attempts; and until the MaxCycles-th cycle has  *)
(* started the program always has a next step.                             *)
C5_CyclesSurviveExceptions ==
    /\ pc # "exited"
    /\ pc # "initial" => cycles >= 1
    /\ pc \in {"loop", "sleep"} => next_run <= clock + Interval
    /\ attempt_number <= StopAfterAttempt
    /\ cycles < MaxCycles => ENABLED NextMain

\* a cycle that logged an exception is followed by the start of the next
C5_Witness ==
    /\ pc = "fetch"
    /\ in_job
    /\ cycles = 3
    /\ errors = 2
    /\ attempt_number = 0

-----------------------------------------------------------------------------
(* The pipeline of one check_weather invocation on a fetched forecast:     *)
(* analyze_forecast, then send_notification on what it returned (main.py   *)
(* lines 53 and 56), for every threshold of rank at least 1 and for "info".*)

PipelineThresholds == {"info", "warning", "severe", "extreme"}

RainOnlyEntry == WithWeather(WithRain(CalmEntry, Rain3h(51)), <<>>)

PipelineEntries ==
    { CalmEntry,
      RainOnlyEntry,
      WithWeather(WithRain(CalmEntry, Rain3h(50)), <<>>),
      StormEntry,
      WithWeather(WithRain(CalmEntry, Rain3h(51)),
                  <<Tag("Thunderstorm", "thunderstorm with heavy rain")>>) }

PipelineForecasts == {Forecast(es) : es \in SeqsUpTo(PipelineEntries, MaxEntries)}

InitPipeline ==
    /\ notification_threshold \in PipelineThresholds
    /\ NoCall
    /\ DriverIdle

\* conditions = weather_service.get_weather_conditions(), the fetch done
PipelineAnalyze ==
    \E f \in PipelineForecasts :
        LET r == analyze_forecast(f) IN
        /\ op = "none"
        /\ op' = "analyze_forecast"
        /\ arg' = f
        /\ ret' = IF r.raised = "none" THEN r.ret ELSE None
        /\ raised' = r.raised
        /\ UNCHANGED <<notification_threshold, net, posts, driverVars>>

\* alert_system.send_notification(conditions)
PipelineSend ==
    \E n \in NetSamples :
        LET r == send_notification(ret, NoTitle, n) IN
        /\ op = "analyze_forecast"
        /\ raised = "none"
        /\ op' = "send_notification"
        /\ forecast' = arg
        /\ conditions' = ret
        /\ arg' = [conditions |-> ret, title |-> NoTitle]
        /\ ret' = r.ret
        /\ raised' = r.raised
        /\ net' = n
        /\ posts' = r.posts
        /\ UNCHANGED <<notification_threshold, pc, clock, next_run, in_job,
                       cycles, errors, attempt_number, slept>>

NextPipeline ==
    \/ PipelineAnalyze
    \/ PipelineSend

SpecPipeline == InitPipeline /\ [][NextPipeline]_vars

\* the entry triggers the heavy-rain rule, and no other rule
OnlyRainTriggers(e) ==
    /\ ExpectedRain(e) # <<>>
    /\ ExpectedTemperature(e) = <<>>
    /\ ExpectedWind(e) = <<>>
    /\ \A i \in 1..Len(TagsOf(e)) : ~TagMatches(TagsOf(e)[i])

NoRuleTriggers(e) ==
    /\ ExpectedRain(e) = <<>>
    /\ ExpectedTemperature(e) = <<>>
    /\ ExpectedWind(e) = <<>>
    /\ \A i \in 1..Len(TagsOf(e)) : ~TagMatches(TagsOf(e)[i])

\* heavy rain is the only rule the forecast triggers
OnlyHeavyRain(f) ==
    /\ \E i \in 1..Len(f.list) : OnlyRainTriggers(f.list[i])
    /\ \A i \in 1..Len(f.list) :
        OnlyRainTriggers(f.list[i]) \/ NoRuleTriggers(f.list[i])

(* C11: with a threshold of rank at least 1 (warning, severe, extreme), a  *)
(* Heavy Rain condition the analyzer produced is never among the filtered  *)
(* conditions nor in a sent message; a forecast whose only triggered rule  *)
(* is heavy rain causes no POST and send_notification returns False.       *)
C11_HeavyRainNeverSent ==
    (op = "send_notification" /\ RankOf(notification_threshold) >= 1)
    => /\ \A i \in 1..Len(filter_conditions(conditions)) :
            filter_conditions(conditions)[i].description # "Heavy Rain"
       /\ \A i \in 1..Len(posts) :
            /\ ~str_contains("Heavy Rain", posts[i].message)
            /\ \A k \in 1..Len(conditions) :
                conditions[k].description = "Heavy Rain" =>
                    \A j \in 1..Len(SplitLines(posts[i].message)) :
                        ~LineShows(SplitLines(posts[i].message)[j], conditions[k])
       /\ OnlyHeavyRain(forecast) => (posts = <<>> /\ ret = FALSE)

\* the analyzer reported heavy rain beside other conditions, and a message
\* went out
C11_Witness ==
    /\ op = "send_notification"
    /\ notification_threshold = "severe"
    /\ \E i \in 1..Len(conditions) : conditions[i].description = "Heavy Rain"
    /\ Len(posts) = 1
    /\ ret = TRUE

\* rain alone, the push service ready to answer 200, nothing sent
C11_RainOnlyReached ==
    /\ op = "send_notification"
    /\ notification_threshold = "warning"
    /\ OnlyHeavyRain(forecast)
    /\ Len(conditions) = 2
    /\ net = Response(200)
    /\ ret = FALSE

=============================================================================
